---- MODULE Spec2Model ----
(***************************************************************************)
(* Model of the map generator: the Poisson-disk sampler of poi/poi.go, the *)
(* generation trigger / background run of main.go, the noise engine of     *)
(* perlin/perlin.go and the height computation of main.go.                 *)
(*                                                                         *)
(* Heights and sea levels are in hundredths (the sliders step by 0.01), so *)
(* the land predicate noiseMap[p] >= seaLevel+0.05 reads                   *)
(* noiseMap[p] >= seaLevel + 5.                                            *)
(***************************************************************************)
EXTENDS Integers, Sequences, FiniteSets, TLC

\* ------------------------------------------------------------------ bounds
Width == 2
Height == 2
MaxMinDistance == 2
\* the accepted list is cut off at this length (it is unbounded in the code)
MaxPoints == 3
\* goroutines started by triggerUpdate that have not returned yet
MaxInFlight == 2
\* raster coordinates visited by the pixel loop of one run
NumPixels == 1
\* seed values DefaultSeed..DefaultSeed+MaxSeedDelta, scale slider positions 0..MaxScale
MaxSeedDelta == 1
MaxScale == 1
\* noise coordinates -MaxCoordHalf/2 .. MaxCoordHalf/2 in steps of 1/2
MaxCoordHalf == 2
\* octave counts 0..MaxOctaves
MaxOctaves == 2
\* raw FBM values -0.60*MaxRaw .. 0.60*MaxRaw in steps of 0.60
MaxRaw == 2
\* raster and minimum distances of the neighbour-block check
WinWidth == 12
WinHeight == 2
MaxWinDistance == 5
\* raster extents 1..MaxExtent and minimum distances 1..MaxCellDistance of the
\* grid-index check
MaxExtent == 5
MaxCellDistance == 4

\* ------------------------------------------------------- program constants
MaxAttempts == 30
LandMargin == 5
DefaultSeed == 12345
\* r.Perm(256), & 255
TableSize == 256

VARIABLES
    \* ---- poi.PoissonDisk: arguments
    minDistance, noiseMap, seaLevel,
    \* ---- poi.PoissonDisk: locals
    points, activePoints, grid, startPoint, randomIndex, i, dist,
    foundCandidate, pc,
    \* ---- main.go: state captured by the closures of main()
    seed, scale, mutex, isGenerating, img,
    \* ---- main.go: the UI goroutine and the background goroutines
    uiPc, runs, prevRun,
    \* ---- main.go: the sea level the slider sets, the image Save PNG captured
    mainSeaLevel, toSave,
    \* ---- perlin.NewPerlin: the random source, base and the loop index of
    \* ---- r.Perm, the table p.p of the instance and of the one before
    rng, base, permI, table, tableSeed, prevTable, prevSeed,
    \* ---- perlin.FBM2DRaw: arguments, locals, result
    fbmX, fbmY, baseFreq, octaves, persistence, lacunarity,
    total, amplitude, frequency, maxAmp, octave, lastNoise, fbmResult, noisePc,
    \* ---- main.go: the locals of one pass of the pixel loop
    pixel, localRaw, continentRaw, continentWeight, combined, falloffVal,
    noiseValue,
    \* ---- poi.PoissonDisk: one candidate and one stored point of the neighbour check
    winDistance, newPoint, neighbour, examined,
    \* ---- poi.PoissonDisk: the raster, one point and the grid slot written for it
    rasterWidth, rasterHeight, cellDistance, cellPoint, gridX, gridY, cellPc

samplerVars == <<minDistance, noiseMap, seaLevel, points, activePoints, grid,
                 startPoint, randomIndex, i, dist, foundCandidate, pc>>

uiVars == <<seed, scale, mutex, isGenerating, img, uiPc, runs, prevRun>>

mainVars == <<mainSeaLevel, toSave>>

perlinVars == <<rng, base, permI, table, tableSeed, prevTable, prevSeed, fbmX, fbmY, baseFreq,
                octaves, persistence, lacunarity, total, amplitude, frequency,
                maxAmp, octave, lastNoise, fbmResult, noisePc>>

fieldVars == <<pixel, localRaw, continentRaw, continentWeight, combined,
               falloffVal, noiseValue>>

windowVars == <<winDistance, newPoint, neighbour, examined>>

\* everything outside the sampler and outside the trigger / run machinery
cellVars == <<rasterWidth, rasterHeight, cellDistance, cellPoint, gridX, gridY, cellPc>>

auxVars == <<mainVars, perlinVars, fieldVars, windowVars, cellVars>>

vars == <<samplerVars, uiVars, auxVars>>

\* ------------------------------------------------------------------ Point
Point(x, y) == [X |-> x, Y |-> y]

\* Go's zero value Point{}
ZeroPoint == Point(0, 0)

Coords == {Point(x, y) : x \in 0..(Width - 1), y \in 0..(Height - 1)}

\* ------------------------------------------------------- grid geometry
\* int(float64(v) / cellSize) with cellSize = minDistance / sqrt(2):
\* the largest k with k * minDistance <= v * sqrt(2), i.e. (k*m)^2 <= 2*v^2.
\* (v*sqrt(2)/m is never within 1e-3 of an integer for 0 < v < 1000, so the
\* floating-point quotient truncates to the same k.)
CellIndex(v, m) ==
    CHOOSE k \in 0..(2 * v) :
        /\ k * k * m * m <= 2 * v * v
        /\ (k + 1) * (k + 1) * m * m > 2 * v * v

\* the grid dimension truncated instead of rounded up
GridDimFloor(extent, m) ==
    CHOOSE k \in 0..(2 * extent) :
        /\ k * k * m * m <= 2 * extent * extent
        /\ (k + 1) * (k + 1) * m * m > 2 * extent * extent

\* int(math.Ceil(float64(extent) / cellSize)): the least k with
\* k * minDistance >= extent * sqrt(2).
GridDim(extent, m) ==
    CHOOSE k \in 1..(2 * extent) :
        /\ k * k * m * m >= 2 * extent * extent
        /\ (k - 1) * (k - 1) * m * m < 2 * extent * extent

GridDimTable == [m \in 1..MaxMinDistance |-> <<GridDim(Width, m), GridDim(Height, m)>>]

gridWidth == GridDimTable[minDistance][1]
gridHeight == GridDimTable[minDistance][2]

EmptyGrid(m) ==
    [c \in (0..(GridDim(Width, m) - 1)) \X (0..(GridDim(Height, m) - 1)) |-> ZeroPoint]

\* ------------------------------------------------------- land predicate
\* the land test with the 0.05 margin forgotten
OnLandNoMargin(pt) == noiseMap[pt] >= seaLevel

\* noiseMap[pt] >= seaLevel+0.05
OnLand(pt) == noiseMap[pt] >= seaLevel + LandMargin

InBounds(pt) == pt.X >= 0 /\ pt.X < Width /\ pt.Y >= 0 /\ pt.Y < Height

\* ------------------------------------------------------- candidate annulus
Abs(n) == IF n < 0 THEN -n ELSE n

\* r.Float64() is in [0, 1/2) (half 0) or in [1/2, 1) (half 1)
Halves == {0, 1}

\* dist := r.Float64()*(float64(minDistance)*2) + float64(minDistance):
\* for a draw in half k, DistLo(k, m) <= dist < DistHi(k, m)
DistLo(k, m) == k * m + m
DistHi(k, m) == (k + 1) * m + m

\* Squared distance (in half units) from the origin to the nearest and to the
\* farthest point of the unit square of offsets that math.Round sends to (dx,dy).
NearSq(dx, dy) ==
    LET nx == IF dx = 0 THEN 0 ELSE 2 * Abs(dx) - 1
        ny == IF dy = 0 THEN 0 ELSE 2 * Abs(dy) - 1
    IN  nx * nx + ny * ny

FarSq(dx, dy) ==
    (2 * Abs(dx) + 1) * (2 * Abs(dx) + 1) + (2 * Abs(dy) + 1) * (2 * Abs(dy) + 1)

\* Some angle and some dist of bucket k give
\* (round(cos(angle)*dist), round(sin(angle)*dist)) = (dx, dy).
Reachable(dx, dy, k, m) ==
    /\ NearSq(dx, dy) < 4 * DistHi(k, m) * DistHi(k, m)
    /\ FarSq(dx, dy) > 4 * DistLo(k, m) * DistLo(k, m)

\* offsets a candidate can have: dist < 3*minDistance
Offsets(m) == (-(3 * m))..(3 * m)

\* ------------------------------------------------------- neighbour check
\* lines 70-80: ok stays true unless an occupied cell of the 5x5 block holds a
\* point closer than minDistance
Occupied(cell) == grid[cell] /= ZeroPoint

DistSq(a, b) == (a.X - b.X) * (a.X - b.X) + (a.Y - b.Y) * (a.Y - b.Y)

\* lines 43-44, 67-68
GridCellTable ==
    [pt \in Coords, m \in 1..MaxMinDistance |-> <<CellIndex(pt.X, m), CellIndex(pt.Y, m)>>]

GridCell(pt) == GridCellTable[pt, minDistance]

\* the block reduced to 3x3
WindowThree(gx, gy) == ((gx - 1)..(gx + 1)) \X ((gy - 1)..(gy + 1))

\* lines 71-72: the cells the loops over x and y visit
Window(gx, gy) == ((gx - 2)..(gx + 2)) \X ((gy - 2)..(gy + 2))

FarEnough(pt) ==
    LET gx == GridCell(pt)[1]
        gy == GridCell(pt)[2]
    IN  \A cell \in Window(gx, gy) :
            (cell[1] >= 0 /\ cell[1] < gridWidth /\ cell[2] >= 0 /\ cell[2] < gridHeight
                /\ Occupied(cell))
                => ~(DistSq(pt, grid[cell]) < minDistance * minDistance)


\* ------------------------------------------------------- inputs
LandSets ==
    { Coords,
      {},
      Coords \ {ZeroPoint},
      {pt \in Coords : pt.X = pt.Y} }
\* land is 1.00; the rest is 0.47: above the sea level 0.45, below the land threshold
FieldOf(land) == [c \in Coords |-> IF c \in land THEN 100 ELSE 47]
SeaLevels == {45, 100}

SamplerInit ==
    /\ minDistance \in 1..MaxMinDistance
    /\ \E land \in LandSets : noiseMap = FieldOf(land)
    /\ seaLevel \in SeaLevels
    /\ points = <<>>
    /\ activePoints = <<>>
    /\ grid = <<>>
    /\ startPoint = ZeroPoint
    /\ randomIndex = 0
    /\ i = 0
    /\ dist = 0
    /\ foundCandidate = FALSE
    /\ pc = "entry"

\* lines 20-30: allocate the lists and the grid
BuildGrid ==
    /\ pc = "entry"
    /\ grid' = EmptyGrid(minDistance)
    /\ pc' = "seek"
    /\ UNCHANGED <<minDistance, noiseMap, seaLevel, points, activePoints,
                   startPoint, randomIndex, i, dist, foundCandidate>>
    /\ UNCHANGED <<uiVars, auxVars>>

\* lines 34-39, one iteration that draws a coordinate below the threshold
SeekRetry ==
    /\ pc = "seek"
    /\ \E pt \in Coords :
        /\ ~OnLand(pt)
        /\ startPoint' = pt
    /\ UNCHANGED <<minDistance, noiseMap, seaLevel, points, activePoints, grid,
                   randomIndex, i, dist, foundCandidate, pc>>
    /\ UNCHANGED <<uiVars, auxVars>>

\* lines 34-45, the iteration that breaks, and the first accepted point
SeekFound ==
    /\ pc = "seek"
    /\ \E pt \in Coords :
        /\ OnLand(pt)
        /\ startPoint' = pt
        /\ points' = Append(points, pt)
        /\ activePoints' = Append(activePoints, pt)
        /\ grid' = [grid EXCEPT ![GridCell(pt)] = pt]
    /\ pc' = "loop"
    /\ UNCHANGED <<minDistance, noiseMap, seaLevel, randomIndex, i, dist,
                   foundCandidate>>
    /\ UNCHANGED <<uiVars, auxVars>>

\* lines 47-51: pick an active point (randomIndex, foundCandidate and i are
\* local to one pass of the loop; randomIndex is 0 between passes)
Pick ==
    /\ pc = "loop"
    /\ Len(activePoints) > 0
    /\ \E idx \in 1..Len(activePoints) : randomIndex' = idx
    /\ foundCandidate' = FALSE
    /\ i' = 0
    /\ pc' = "attempt"
    /\ UNCHANGED <<minDistance, noiseMap, seaLevel, points, activePoints, grid,
                   startPoint, dist>>
    /\ UNCHANGED <<uiVars, auxVars>>

\* a candidate of the active point p: an offset some angle and some dist of
\* bucket k round to (lines 55-61)
ReachableOffsets ==
    [m \in 1..MaxMinDistance, k \in Halves |->
        {o \in Offsets(m) \X Offsets(m) : Reachable(o[1], o[2], k, m)}]

CandidateTable ==
    [p \in Coords, k \in Halves, m \in 1..MaxMinDistance |->
        {Point(p.X + o[1], p.Y + o[2]) : o \in ReachableOffsets[m, k]}]

Candidates(p, k, m) == CandidateTable[p, k, m]

\* lines 64-82: the candidate passes the bounds, land and separation checks
Accepts(cand) == InBounds(cand) /\ OnLand(cand) /\ FarEnough(cand)

\* lines 52-90: the 30 iterations of the for loop, each of which draws a
\* candidate that is rejected (dist is the one of the last iteration)
AttemptsRejected ==
    /\ pc = "attempt"
    /\ i = 0
    /\ \E k \in Halves :
        /\ ~(\A cand \in Candidates(activePoints[randomIndex], k, minDistance) : Accepts(cand))
        /\ dist' = DistLo(k, minDistance)
    /\ i' = MaxAttempts
    /\ UNCHANGED <<minDistance, noiseMap, seaLevel, points, activePoints, grid,
                   startPoint, randomIndex, foundCandidate, pc>>
    /\ UNCHANGED <<uiVars, auxVars>>

\* lines 52-88: the for loop up to the iteration whose candidate is accepted
\* and that breaks (the iterations before it, fewer than 30, rejected theirs)
AttemptAccept ==
    /\ pc = "attempt"
    /\ i < MaxAttempts
    /\ Len(points) < MaxPoints
    /\ \E k \in Halves :
        \E cand \in Candidates(activePoints[randomIndex], k, minDistance) :
            /\ Accepts(cand)
            /\ dist' = DistLo(k, minDistance)
            /\ points' = Append(points, cand)
            /\ activePoints' = Append(activePoints, cand)
            /\ grid' = [grid EXCEPT ![GridCell(cand)] = cand]
    /\ foundCandidate' = TRUE
    /\ randomIndex' = 0
    /\ pc' = "loop"
    /\ UNCHANGED <<minDistance, noiseMap, seaLevel, startPoint, i>>
    /\ UNCHANGED <<uiVars, auxVars>>

\* the removal that always drops the first entry
RemoveFirst(s, idx) == [j \in 1..(Len(s) - 1) |-> s[j + 1]]

\* append(activePoints[:randomIndex], activePoints[randomIndex+1:]...)
RemoveAt(s, idx) == [j \in 1..(Len(s) - 1) |-> IF j < idx THEN s[j] ELSE s[j + 1]]

\* lines 92-94: all attempts failed, drop the picked entry from the active list
Exhaust ==
    /\ pc = "attempt"
    /\ i = MaxAttempts
    /\ ~foundCandidate
    /\ activePoints' = RemoveAt(activePoints, randomIndex)
    /\ randomIndex' = 0
    /\ pc' = "loop"
    /\ UNCHANGED <<minDistance, noiseMap, seaLevel, points, grid, startPoint,
                   i, dist, foundCandidate>>
    /\ UNCHANGED <<uiVars, auxVars>>

\* line 97
Return ==
    /\ pc = "loop"
    /\ Len(activePoints) = 0
    /\ pc' = "done"
    /\ UNCHANGED <<minDistance, noiseMap, seaLevel, points, activePoints, grid,
                   startPoint, randomIndex, i, dist, foundCandidate>>
    /\ UNCHANGED <<uiVars, auxVars>>

\* ------------------------------------------------------------ main.go
Seeds == DefaultSeed..(DefaultSeed + MaxSeedDelta)
Scales == 0..MaxScale

\* image.NewRGBA: the blank image main() starts with
BlankImage == [perlinSeed |-> -1, scales |-> <<>>, poiSeed |-> -1]

\* The image a run draws is determined by the values it read: the seed of the
\* noise table (line 114), the scale used for each pixel (line 137) and the seed
\* of the POI random source (line 175).
Render(run) == [perlinSeed |-> run.perlinSeed, scales |-> run.scales, poiSeed |-> run.poiSeed]

\* no generation run has returned yet
NoRun == [pc |-> "none", startSeed |-> -1, startScale |-> -1,
          perlinSeed |-> -1, scales |-> <<>>, poiSeed |-> -1]

\* line 207: the goroutine triggerUpdate starts; it has not read anything yet
NewRun == [pc |-> "start", startSeed |-> -1, startScale |-> -1,
           perlinSeed |-> -1, scales |-> <<>>, poiSeed |-> -1]

\* triggerUpdate without the isGenerating test
MayStartAlways == TRUE

\* line 205
MayStart == ~isGenerating

\* a goroutine is inside updateImage (lines 109-199)
Executing(r) == runs[r].pc \in {"start", "pixels", "poi", "swap"}

UIInit ==
    /\ seed \in Seeds
    /\ scale \in Scales
    /\ mutex = "free"
    /\ isGenerating = FALSE
    /\ img = BlankImage
    /\ uiPc = "trigger"
    /\ runs = <<>>
    /\ prevRun = NoRun

\* lines 220-224: seedSlider.OnChanged, no generation
SeedChanged ==
    /\ uiPc = "idle"
    /\ \E v \in Seeds : seed' = v
    /\ UNCHANGED <<scale, mutex, isGenerating, img, uiPc, runs, prevRun>>
    /\ UNCHANGED <<samplerVars, auxVars>>

\* lines 227-233: randomSeedBtn, up to the call of triggerUpdate
RandomizeSeed ==
    /\ uiPc = "idle"
    /\ \E v \in Seeds : seed' = v
    /\ uiPc' = "trigger"
    /\ UNCHANGED <<scale, mutex, isGenerating, img, runs, prevRun>>
    /\ UNCHANGED <<samplerVars, auxVars>>

\* lines 239-243: scaleSlider.OnChanged, up to the call of triggerUpdate
ScaleChanged ==
    /\ uiPc = "idle"
    /\ \E v \in Scales : scale' = v
    /\ uiPc' = "trigger"
    /\ UNCHANGED <<seed, mutex, isGenerating, img, runs, prevRun>>
    /\ UNCHANGED <<samplerVars, auxVars>>

\* line 203: triggerUpdate takes the mutex
TriggerLock ==
    /\ uiPc = "trigger"
    /\ mutex = "free"
    /\ mutex' = "ui"
    /\ uiPc' = "locked"
    /\ UNCHANGED <<seed, scale, isGenerating, img, runs, prevRun>>
    /\ UNCHANGED <<samplerVars, auxVars>>

\* lines 204-213: the guarded start of a goroutine, then the deferred unlock
TriggerStart ==
    /\ uiPc = "locked"
    /\ MayStart
    /\ Len(runs) < MaxInFlight
    /\ isGenerating' = TRUE
    /\ runs' = Append(runs, NewRun)
    /\ mutex' = "free"
    /\ uiPc' = "idle"
    /\ UNCHANGED <<seed, scale, img, prevRun>>
    /\ UNCHANGED <<samplerVars, auxVars>>

\* lines 204-205, 214: a run is in flight, nothing is started
TriggerSkip ==
    /\ uiPc = "locked"
    /\ ~MayStart
    /\ mutex' = "free"
    /\ uiPc' = "idle"
    /\ UNCHANGED <<seed, scale, isGenerating, img, runs, prevRun>>
    /\ UNCHANGED <<samplerVars, auxVars>>

\* lines 109-124: updateImage begins (startSeed, startScale record the
\* configuration in force at that moment); p := perlin.NewPerlin(seed)
RunNewPerlin ==
    /\ \E r \in 1..Len(runs) :
        /\ runs[r].pc = "start"
        /\ runs' = [runs EXCEPT ![r].startSeed = seed, ![r].startScale = scale,
                                ![r].perlinSeed = seed, ![r].pc = "pixels"]
    /\ UNCHANGED <<seed, scale, mutex, isGenerating, img, uiPc, prevRun>>
    /\ UNCHANGED <<samplerVars, auxVars>>

\* lines 126-171: one pixel of the raster
RunPixel ==
    /\ \E r \in 1..Len(runs) :
        /\ runs[r].pc = "pixels"
        /\ Len(runs[r].scales) < NumPixels
        /\ runs' = [runs EXCEPT ![r].scales = Append(@, scale)]
    /\ UNCHANGED <<seed, scale, mutex, isGenerating, img, uiPc, prevRun>>
    /\ UNCHANGED <<samplerVars, auxVars>>

\* lines 175-187: the POI random source, the sampler, the POI pixels
RunPOI ==
    /\ \E r \in 1..Len(runs) :
        /\ runs[r].pc = "pixels"
        /\ Len(runs[r].scales) = NumPixels
        /\ runs' = [runs EXCEPT ![r].poiSeed = seed, ![r].pc = "swap"]
    /\ UNCHANGED <<seed, scale, mutex, isGenerating, img, uiPc, prevRun>>
    /\ UNCHANGED <<samplerVars, auxVars>>

\* the swap also taken while the pixel loop is running
ReadyToSwapEarly(r) == runs[r].pc \in {"pixels", "swap"}

\* line 189: the pixel loop and the POI pass are over
ReadyToSwap(r) == runs[r].pc = "swap"

\* lines 190-192: img = out under the mutex
RunSwap ==
    /\ mutex = "free"
    /\ \E r \in 1..Len(runs) :
        /\ ReadyToSwap(r)
        /\ img' = Render(runs[r])
        /\ runs' = [runs EXCEPT ![r].pc = "reset"]
    /\ UNCHANGED <<seed, scale, mutex, isGenerating, uiPc, prevRun>>
    /\ UNCHANGED <<samplerVars, auxVars>>

\* lines 209-211: the goroutine clears isGenerating under the mutex
RunReset ==
    /\ mutex = "free"
    /\ \E r \in 1..Len(runs) :
        /\ runs[r].pc = "reset"
        /\ prevRun' = runs[r]
        /\ runs' = RemoveAt(runs, r)
    /\ isGenerating' = FALSE
    /\ UNCHANGED <<seed, scale, mutex, img, uiPc>>
    /\ UNCHANGED <<samplerVars, auxVars>>

\* --------------------------------------- main.go: Save PNG, the sea level,
\* --------------------------------------- and the call of poi.PoissonDisk
\* no image captured
NoImage == [perlinSeed |-> -2, scales |-> <<>>, poiSeed |-> -2]

MainAtRest ==
    /\ mainSeaLevel = 45
    /\ toSave = NoImage

\* lines 362-365: toSave := img under the mutex
SaveCapture ==
    /\ uiPc = "idle"
    /\ mutex = "free"
    /\ toSave' = img
    /\ uiPc' = "saving"
    /\ UNCHANGED <<seed, scale, mutex, isGenerating, img, runs, prevRun>>
    /\ UNCHANGED mainSeaLevel
    /\ UNCHANGED <<samplerVars, perlinVars, fieldVars, windowVars, cellVars>>

\* lines 367-377: the captured image is encoded, the callback returns
SaveEncode ==
    /\ uiPc = "saving"
    /\ toSave' = NoImage
    /\ uiPc' = "idle"
    /\ UNCHANGED <<seed, scale, mutex, isGenerating, img, runs, prevRun>>
    /\ UNCHANGED mainSeaLevel
    /\ UNCHANGED <<samplerVars, perlinVars, fieldVars, windowVars, cellVars>>

\* lines 326-330: seaLevelSlider.OnChanged, up to the call of triggerUpdate
SeaLevelChanged ==
    /\ uiPc = "idle"
    /\ \E v \in SeaLevels : mainSeaLevel' = v
    /\ uiPc' = "trigger"
    /\ UNCHANGED <<seed, scale, mutex, isGenerating, img, runs, prevRun>>
    /\ UNCHANGED toSave
    /\ UNCHANGED <<samplerVars, perlinVars, fieldVars, windowVars, cellVars>>

\* the sampler between two calls
SamplerAtRest ==
    /\ minDistance = 1
    /\ noiseMap = FieldOf(Coords)
    /\ seaLevel = 45
    /\ points = <<>>
    /\ activePoints = <<>>
    /\ grid = <<>>
    /\ startPoint = ZeroPoint
    /\ randomIndex = 0
    /\ i = 0
    /\ dist = 0
    /\ foundCandidate = FALSE
    /\ pc = "none"

\* lines 175-176: the run calls poi.PoissonDisk with the height map of its
\* pixel loop, the sea level and the minimum distance the sliders hold
RunCallPoissonDisk ==
    /\ pc = "none"
    /\ \E r \in 1..Len(runs) :
        /\ runs[r].pc = "pixels"
        /\ Len(runs[r].scales) = NumPixels
        /\ runs' = [runs EXCEPT ![r].poiSeed = seed, ![r].pc = "poi"]
    /\ minDistance' \in 1..MaxMinDistance
    /\ \E land \in LandSets : noiseMap' = FieldOf(land)
    /\ seaLevel' = mainSeaLevel
    /\ points' = <<>>
    /\ activePoints' = <<>>
    /\ grid' = <<>>
    /\ startPoint' = ZeroPoint
    /\ randomIndex' = 0
    /\ i' = 0
    /\ dist' = 0
    /\ foundCandidate' = FALSE
    /\ pc' = "entry"
    /\ UNCHANGED <<seed, scale, mutex, isGenerating, img, uiPc, prevRun>>
    /\ UNCHANGED auxVars

\* lines 176-187: PoissonDisk has returned, the POIs are drawn onto out
RunPoissonDiskReturned ==
    /\ pc = "done"
    /\ \E r \in 1..Len(runs) :
        /\ runs[r].pc = "poi"
        /\ runs' = [runs EXCEPT ![r].pc = "swap"]
    /\ minDistance' = 1
    /\ noiseMap' = FieldOf(Coords)
    /\ seaLevel' = 45
    /\ points' = <<>>
    /\ activePoints' = <<>>
    /\ grid' = <<>>
    /\ startPoint' = ZeroPoint
    /\ randomIndex' = 0
    /\ i' = 0
    /\ dist' = 0
    /\ foundCandidate' = FALSE
    /\ pc' = "none"
    /\ UNCHANGED <<seed, scale, mutex, isGenerating, img, uiPc, prevRun>>
    /\ UNCHANGED auxVars

\* ------------------------------------------------------------ perlin.go
\* Coordinates and fractional offsets are in halves, gradient dot products in
\* halves, Noise2DRaw in eighths, amplitudes in units of 1/AmpUnit,
\* persistence in halves: every product and interpolation below is exact.

\* math/rand's generator is stood in for by a linear congruential generator:
\* like the library's, its stream is a function of the seed alone
RandNext(s) == (s * 75 + 74) % 65537

\* rand.NewSource(seed)
NewSource(sd) == sd % 65537

\* r.Intn(n) on the value the source has just produced
Intn(s, n) == s % n

\* make([]int, n)
ZeroSlice(n) == [q \in 0..(n - 1) |-> 0]

\* NewPerlin without line 21: the second half keeps the zeros of make([]int, 512)
TableOfNoCopy(b) ==
    [q \in 0..(2 * TableSize - 1) |-> IF q < TableSize THEN b[q] ELSE 0]

\* lines 18-22: p.p[i] = base[i]; p.p[256+i] = base[i]
TableOf(b) ==
    [q \in 0..(2 * TableSize - 1) |-> IF q < TableSize THEN b[q] ELSE b[q - TableSize]]

\* no Perlin instance yet
NoTable == <<>>

\* line 28, t in halves, result in halves: t*t*t*(t*(t*6-15)+10)
fade(t) == (t * t * t * (3 * t * t - 15 * t + 20)) \div 8

\* line 33: a + t*(b-a) with t in halves; the result has twice the denominator of a and b
lerp(t, a, b) == 2 * a + t * (b - a)

\* lines 37-49
grad(hash, gx, gy) ==
    LET h == hash % 4
    IN  CASE h = 0 -> gx + gy
          [] h = 1 -> (-gx) + gy
          [] h = 2 -> gx - gy
          [] OTHER -> (-gx) - gy

\* math.Floor of a value given in halves
Floor(h) == h \div 2

\* the mask taken over 9 bits
MaskWide(n) == n % (2 * TableSize)

\* n & 255 on a two's complement int
Mask(n) == n % TableSize

InTable(k) == k \in 0..(2 * TableSize - 1)

\* p.p[k]; an index outside the slice panics, the value is then irrelevant
At(k) == IF InTable(k) THEN table[k] ELSE 0

\* lines 53-75; lookups lists the indices of p.p[...] in the order of evaluation
Noise2DRaw(nx, ny, freq) ==
    LET xs == nx * freq
        ys == ny * freq
        xi == Mask(Floor(xs))
        yi == Mask(Floor(ys))
        xf == xs - 2 * Floor(xs)
        yf == ys - 2 * Floor(ys)
        u == fade(xf)
        v == fade(yf)
        a == At(xi)
        b == At(xi + 1)
        aa == At(a + yi)
        ab == At(a + yi + 1)
        ba == At(b + yi)
        bb == At(b + yi + 1)
        x1 == lerp(u, grad(aa, xf, yf), grad(ba, xf - 2, yf))
        x2 == lerp(u, grad(ab, xf, yf - 2), grad(bb, xf - 2, yf - 2))
        idx == <<xi, a + yi, xi, a + yi + 1, xi + 1, b + yi, xi + 1, b + yi + 1>>
    IN  [xi |-> xi, yi |-> yi, lookups |-> idx,
         panic |-> \E n \in 1..Len(idx) : ~InTable(idx[n]),
         value |-> lerp(v, x1, x2)]

\* no call of Noise2DRaw yet
NoNoise == [xi |-> 0, yi |-> 0, lookups |-> <<>>, panic |-> FALSE, value |-> 0]

\* a quotient num/den (num in eighths of 1/AmpUnit, den in 1/AmpUnit: the
\* quotient is in eighths)
Zero == [num |-> 0, den |-> 1]

\* lines 98-101 without the guard
FBMQuotientUnguarded(t, m) == [num |-> t, den |-> m]

\* lines 98-101: if maxAmp == 0 { return 0 }; return total / maxAmp
FBMQuotient(t, m) == IF m = 0 THEN Zero ELSE [num |-> t, den |-> m]

\* inputs of the noise functions
CoordHalves == (-MaxCoordHalf)..MaxCoordHalf
Freqs == {1, 2}
Lacunarities == {1, 2}
\* -1, 0, 1/2, 1
Persistences == {-2, 0, 1, 2}
AmpUnit == 2 ^ MaxOctaves

PerlinAtRest ==
    /\ rng = 0
    /\ base = <<>>
    /\ permI = 0
    /\ table = NoTable
    /\ tableSeed = -1
    /\ prevTable = NoTable
    /\ prevSeed = -1
    /\ fbmX = 0
    /\ fbmY = 0
    /\ baseFreq = 0
    /\ octaves = 0
    /\ persistence = 0
    /\ lacunarity = 0
    /\ total = 0
    /\ amplitude = 0
    /\ frequency = 0
    /\ maxAmp = 0
    /\ octave = 0
    /\ lastNoise = NoNoise
    /\ fbmResult = Zero
    /\ noisePc = "none"

otherThanPerlin == <<samplerVars, uiVars, mainVars, fieldVars, windowVars, cellVars>>

fbmAtRest ==
    /\ fbmX' = 0
    /\ fbmY' = 0
    /\ baseFreq' = 0
    /\ octaves' = 0
    /\ persistence' = 0
    /\ lacunarity' = 0
    /\ total' = 0
    /\ amplitude' = 0
    /\ frequency' = 0
    /\ maxAmp' = 0
    /\ octave' = 0
    /\ lastNoise' = NoNoise
    /\ fbmResult' = Zero

\* main.go:114 and perlin.go:15-16: a run creates its instance;
\* r := rand.New(rand.NewSource(seed)) and the first lines of r.Perm(256)
NewPerlin ==
    /\ noisePc \in {"none", "ready"}
    /\ \E sd \in Seeds :
        /\ rng' = NewSource(sd)
        /\ tableSeed' = sd
    /\ base' = ZeroSlice(TableSize)
    /\ permI' = 0
    /\ table' = NoTable
    /\ prevTable' = table
    /\ prevSeed' = tableSeed
    /\ fbmAtRest
    /\ noisePc' = "perm"
    /\ UNCHANGED otherThanPerlin

\* one pass of the loop of (*Rand).Perm:
\* for i := 0; i < n; i++ { j := r.Intn(i + 1); m[i] = m[j]; m[j] = i }
PermStep ==
    /\ noisePc = "perm"
    /\ permI < TableSize
    /\ rng' = RandNext(rng)
    /\ LET j == Intn(rng', permI + 1)
       IN  base' = [base EXCEPT ![permI] = base[j], ![j] = permI]
    /\ permI' = permI + 1
    /\ UNCHANGED <<table, tableSeed, prevTable, prevSeed, fbmX, fbmY, baseFreq,
                   octaves, persistence, lacunarity, total, amplitude, frequency,
                   maxAmp, octave, lastNoise, fbmResult, noisePc>>
    /\ UNCHANGED otherThanPerlin

\* lines 18-23: the table is filled from base and the instance returned
PerlinReturn ==
    /\ noisePc = "perm"
    /\ permI = TableSize
    /\ table' = TableOf(base)
    /\ rng' = 0
    /\ base' = <<>>
    /\ permI' = 0
    /\ noisePc' = "ready"
    /\ UNCHANGED <<tableSeed, prevTable, prevSeed, fbmX, fbmY, baseFreq,
                   octaves, persistence, lacunarity, total, amplitude, frequency,
                   maxAmp, octave, lastNoise, fbmResult>>
    /\ UNCHANGED otherThanPerlin

\* lines 85-89: a call of FBM2DRaw
FBMStart ==
    /\ noisePc = "ready"
    /\ fbmX' \in CoordHalves
    /\ fbmY' \in CoordHalves
    /\ baseFreq' \in Freqs
    /\ octaves' \in 0..MaxOctaves
    /\ persistence' \in Persistences
    /\ lacunarity' \in Lacunarities
    /\ total' = 0
    /\ amplitude' = AmpUnit
    /\ frequency' = baseFreq'
    /\ maxAmp' = 0
    /\ octave' = 0
    /\ lastNoise' = NoNoise
    /\ fbmResult' = Zero
    /\ noisePc' = "fbm"
    /\ UNCHANGED <<rng, base, permI, table, tableSeed, prevTable, prevSeed>>
    /\ UNCHANGED otherThanPerlin

\* lines 91-96: one octave
FBMOctave ==
    /\ noisePc = "fbm"
    /\ octave < octaves
    /\ LET n == Noise2DRaw(fbmX, fbmY, frequency)
       IN  /\ lastNoise' = n
           /\ IF n.panic
              THEN /\ noisePc' = "panic"
                   /\ UNCHANGED <<total, maxAmp, amplitude, frequency, octave>>
              ELSE /\ total' = total + n.value * amplitude
                   /\ maxAmp' = maxAmp + amplitude
                   /\ amplitude' = (amplitude * persistence) \div 2
                   /\ frequency' = frequency * lacunarity
                   /\ octave' = octave + 1
                   /\ UNCHANGED noisePc
    /\ UNCHANGED <<rng, base, permI, table, tableSeed, prevTable, prevSeed,
                   fbmX, fbmY, baseFreq, octaves, persistence, lacunarity,
                   fbmResult>>
    /\ UNCHANGED otherThanPerlin

\* lines 98-101
FBMReturn ==
    /\ noisePc = "fbm"
    /\ ~(octave < octaves)
    /\ fbmResult' = FBMQuotient(total, maxAmp)
    /\ noisePc' = "returned"
    /\ UNCHANGED <<rng, base, permI, table, tableSeed, prevTable, prevSeed,
                   fbmX, fbmY, baseFreq, octaves, persistence, lacunarity, total,
                   amplitude, frequency, maxAmp, octave, lastNoise>>
    /\ UNCHANGED otherThanPerlin

\* main.go:137, 139: the caller has taken the result, the locals of the call
\* are gone
FBMResultUsed ==
    /\ noisePc = "returned"
    /\ fbmAtRest
    /\ noisePc' = "ready"
    /\ UNCHANGED <<rng, base, permI, table, tableSeed, prevTable, prevSeed>>
    /\ UNCHANGED otherThanPerlin

\* ------------------------------------------------- main.go: height field
\* Heights, raw noise values, weights and falloff values in hundredths.

\* clamp01 without its first test
clamp01NoFloor(v) == IF v > 100 THEN 100 ELSE v

\* lines 40-48
clamp01(v) == IF v < 0 THEN 0 ELSE IF v > 100 THEN 100 ELSE v

\* values FBM2DRaw can return: about [-1,1], not strictly
RawValues == {60 * k : k \in (-MaxRaw)..MaxRaw}
\* positions of the continent weight slider (lines 294-295)
ContinentWeights == {0, 50, 100}
\* math.Pow(dist/maxDist, falloff) * falloffWeight, both factors in [0,1]
FalloffValues == {0, 30, 60, 100}

\* the coordinate of the n-th pass of for y { for x { ... } }
PixelAt(n) == Point(n % Width, n \div Width)

FieldAtRest ==
    /\ pixel = 0
    /\ localRaw = 0
    /\ continentRaw = 0
    /\ continentWeight = 0
    /\ combined = 0
    /\ falloffVal = 0
    /\ noiseValue = 0

\* line 124: a run makes its own empty map
NewNoiseMap ==
    /\ pixel = NumPixels
    /\ noiseMap' = <<>>
    /\ pixel' = 0
    /\ UNCHANGED <<localRaw, continentRaw, continentWeight, combined,
                   falloffVal, noiseValue>>
    /\ UNCHANGED <<minDistance, seaLevel, points, activePoints, grid,
                   startPoint, randomIndex, i, dist, foundCandidate, pc>>
    /\ UNCHANGED <<uiVars, mainVars, perlinVars, windowVars, cellVars>>

\* lines 137-150: one pass of the pixel loop, from the two FBM values to the
\* stored height
StoreHeight ==
    /\ pixel < NumPixels
    /\ localRaw' \in RawValues
    /\ continentRaw' \in RawValues
    /\ continentWeight' \in ContinentWeights
    /\ falloffVal' \in FalloffValues
    /\ LET combinedRaw == (localRaw' * (100 - continentWeight')
                            + continentRaw' * continentWeight') \div 100
       IN  combined' = (combinedRaw + 100) \div 2
    /\ noiseValue' = clamp01(combined' - falloffVal')
    /\ noiseMap' = (PixelAt(pixel) :> noiseValue') @@ noiseMap
    /\ pixel' = pixel + 1
    /\ UNCHANGED <<minDistance, seaLevel, points, activePoints, grid,
                   startPoint, randomIndex, i, dist, foundCandidate, pc>>
    /\ UNCHANGED <<uiVars, mainVars, perlinVars, windowVars, cellVars>>

\* ------------------------------------------- poi.go: the 5x5 neighbour block
\* One candidate (newPoint) and one stored point (neighbour) on a raster wide
\* enough for two points closer than minDistance to lie two cells apart.
WinCoords == {Point(cx, cy) : cx \in 0..(WinWidth - 1), cy \in 0..(WinHeight - 1)}

WinCellTable ==
    [v \in 0..(WinWidth + WinHeight), m \in 1..MaxWinDistance |-> CellIndex(v, m)]

\* lines 67-68
WinCell(pt, m) == <<WinCellTable[pt.X, m], WinCellTable[pt.Y, m]>>

WinGridTable ==
    [m \in 1..MaxWinDistance |-> <<GridDim(WinWidth, m), GridDim(WinHeight, m)>>]

WindowAtRest ==
    /\ winDistance = 1
    /\ newPoint = ZeroPoint
    /\ neighbour = ZeroPoint
    /\ examined = "unchecked"

WindowInit ==
    /\ winDistance \in 1..MaxWinDistance
    /\ newPoint \in WinCoords
    /\ neighbour \in WinCoords
    /\ examined = "unchecked"

\* lines 67-73: do the loops over x and y reach the cell of the stored point
NeighbourCheck ==
    /\ examined = "unchecked"
    /\ LET c == WinCell(newPoint, winDistance)
           q == WinCell(neighbour, winDistance)
       IN  examined' =
               IF /\ q \in Window(c[1], c[2])
                  /\ q[1] >= 0 /\ q[1] < WinGridTable[winDistance][1]
                  /\ q[2] >= 0 /\ q[2] < WinGridTable[winDistance][2]
               THEN "yes" ELSE "no"
    /\ UNCHANGED <<winDistance, newPoint, neighbour>>
    /\ UNCHANGED <<samplerVars, uiVars, mainVars, perlinVars, fieldVars, cellVars>>

\* ------------------------------------------- poi.go: the writes to the grid
\* One raster, one minimum distance and one point: the start point the loop of
\* lines 34-39 drew, or a candidate of lines 58-61, which may lie outside the
\* raster. The land test does not enter the index computation and is left out.
CellPoints(w, h) == {Point(cx, cy) : cx \in (-1)..w, cy \in (-1)..h}

\* line 64, the bounds part of the condition
InRaster(pt, w, h) == pt.X >= 0 /\ pt.X < w /\ pt.Y >= 0 /\ pt.Y < h

\* grid[x][y] = ... on the slices of lines 27-30: an index outside
\* 0..len-1 panics
InGrid(x, y, w, h, m) ==
    /\ x >= 0 /\ x < GridDim(w, m)
    /\ y >= 0 /\ y < GridDim(h, m)

CellAtRest ==
    /\ rasterWidth = 1
    /\ rasterHeight = 1
    /\ cellDistance = 1
    /\ cellPoint = ZeroPoint
    /\ gridX = 0
    /\ gridY = 0
    /\ cellPc = "none"

CellInit ==
    /\ rasterWidth \in 1..MaxExtent
    /\ rasterHeight \in 1..MaxExtent
    /\ cellDistance \in 1..MaxCellDistance
    /\ cellPoint \in CellPoints(rasterWidth, rasterHeight)
    /\ gridX = 0
    /\ gridY = 0
    /\ cellPc = "drawn"

\* lines 35, 43-45: the start point, r.Intn(width) and r.Intn(height), is
\* stored in the grid
StartPointStore ==
    /\ cellPc = "drawn"
    /\ InRaster(cellPoint, rasterWidth, rasterHeight)
    /\ gridX' = CellIndex(cellPoint.X, cellDistance)
    /\ gridY' = CellIndex(cellPoint.Y, cellDistance)
    /\ cellPc' = IF InGrid(gridX', gridY', rasterWidth, rasterHeight, cellDistance)
                 THEN "start stored" ELSE "panic"
    /\ UNCHANGED <<rasterWidth, rasterHeight, cellDistance, cellPoint>>
    /\ UNCHANGED <<samplerVars, uiVars, mainVars, perlinVars, fieldVars, windowVars>>

\* lines 64-68, 85: a candidate inside the raster is stored in the grid
CandidateStore ==
    /\ cellPc = "drawn"
    /\ InRaster(cellPoint, rasterWidth, rasterHeight)
    /\ gridX' = CellIndex(cellPoint.X, cellDistance)
    /\ gridY' = CellIndex(cellPoint.Y, cellDistance)
    /\ cellPc' = IF InGrid(gridX', gridY', rasterWidth, rasterHeight, cellDistance)
                 THEN "candidate stored" ELSE "panic"
    /\ UNCHANGED <<rasterWidth, rasterHeight, cellDistance, cellPoint>>
    /\ UNCHANGED <<samplerVars, uiVars, mainVars, perlinVars, fieldVars, windowVars>>

\* line 64: a candidate outside the raster fails the condition; no cell index
\* is computed and nothing is written
CandidateOutside ==
    /\ cellPc = "drawn"
    /\ ~InRaster(cellPoint, rasterWidth, rasterHeight)
    /\ cellPc' = "rejected"
    /\ UNCHANGED <<rasterWidth, rasterHeight, cellDistance, cellPoint, gridX, gridY>>
    /\ UNCHANGED <<samplerVars, uiVars, mainVars, perlinVars, fieldVars, windowVars>>

\* ------------------------------------------------------ specifications
\* the sampler, with main.go at rest
Init ==
    /\ SamplerInit
    /\ seed = DefaultSeed
    /\ scale = 0
    /\ mutex = "free"
    /\ isGenerating = FALSE
    /\ img = BlankImage
    /\ uiPc = "trigger"
    /\ runs = <<>>
    /\ prevRun = NoRun
    /\ MainAtRest
    /\ PerlinAtRest
    /\ FieldAtRest
    /\ WindowAtRest
    /\ CellAtRest

Next ==
    \/ BuildGrid
    \/ SeekRetry
    \/ SeekFound
    \/ Pick
    \/ AttemptsRejected
    \/ AttemptAccept
    \/ Exhaust
    \/ Return

Spec == Init /\ [][Next]_vars

\* PoissonDisk is a sequential function: it keeps taking steps
FairSpec == Init /\ [][Next]_vars /\ WF_vars(Next)

\* main.go, with a sampler that is not stepped
InitUI ==
    /\ UIInit
    /\ minDistance = 1
    /\ noiseMap = FieldOf(Coords)
    /\ seaLevel = 45
    /\ points = <<>>
    /\ activePoints = <<>>
    /\ grid = <<>>
    /\ startPoint = ZeroPoint
    /\ randomIndex = 0
    /\ i = 0
    /\ dist = 0
    /\ foundCandidate = FALSE
    /\ pc = "entry"
    /\ MainAtRest
    /\ PerlinAtRest
    /\ FieldAtRest
    /\ WindowAtRest
    /\ CellAtRest

NextUI ==
    \/ SeedChanged
    \/ RandomizeSeed
    \/ ScaleChanged
    \/ TriggerLock
    \/ TriggerStart
    \/ TriggerSkip
    \/ RunNewPerlin
    \/ RunPixel
    \/ RunPOI
    \/ RunSwap
    \/ RunReset

SpecUI == InitUI /\ [][NextUI]_vars

\* main.go with the save button: runs are started by the scale slider (every
\* slider has the same handler shape), the seed controls are left alone
InitSave == InitUI

NextSave ==
    \/ ScaleChanged
    \/ TriggerLock
    \/ TriggerStart
    \/ TriggerSkip
    \/ RunNewPerlin
    \/ RunPixel
    \/ RunPOI
    \/ RunSwap
    \/ RunReset
    \/ SaveCapture
    \/ SaveEncode

SpecSave == InitSave /\ [][NextSave]_vars

\* main.go and the sampler together: a run calls poi.PoissonDisk; of the
\* controls only the sea-level slider is moved
InitGen ==
    /\ UIInit
    /\ SamplerAtRest
    /\ MainAtRest
    /\ PerlinAtRest
    /\ FieldAtRest
    /\ WindowAtRest
    /\ CellAtRest

GoroutineStep ==
    \/ RunNewPerlin
    \/ RunPixel
    \/ RunCallPoissonDisk
    \/ Next
    \/ RunPoissonDiskReturned

NextGen ==
    \/ SeaLevelChanged
    \/ TriggerLock
    \/ TriggerStart
    \/ TriggerSkip
    \/ GoroutineStep
    \/ RunSwap
    \/ RunReset

\* The goroutine of a run keeps running, the UI goroutine releases the mutex
\* it holds, sync.Mutex hands the lock to a goroutine that keeps asking for it,
\* and a uniform draw over the raster finds a land coordinate if there is one.
FairSpecGen ==
    /\ InitGen
    /\ [][NextGen]_vars
    /\ WF_vars(GoroutineStep)
    /\ WF_vars(SeekFound)
    /\ WF_vars(TriggerStart \/ TriggerSkip)
    /\ SF_vars(RunSwap)
    /\ SF_vars(RunReset)

\* perlin.go: instances are created and FBM2DRaw is called on them
InitPerlin ==
    /\ PerlinAtRest
    /\ SamplerAtRest
    /\ seed = DefaultSeed
    /\ scale = 0
    /\ mutex = "free"
    /\ isGenerating = FALSE
    /\ img = BlankImage
    /\ uiPc = "idle"
    /\ runs = <<>>
    /\ prevRun = NoRun
    /\ MainAtRest
    /\ FieldAtRest
    /\ WindowAtRest
    /\ CellAtRest

NextPerlin ==
    \/ NewPerlin
    \/ PermStep
    \/ PerlinReturn
    \/ FBMStart
    \/ FBMOctave
    \/ FBMReturn
    \/ FBMResultUsed

SpecPerlin == InitPerlin /\ [][NextPerlin]_vars

\* the pixel loop of updateImage filling the height map
InitField ==
    /\ FieldAtRest
    /\ minDistance = 1
    /\ noiseMap = <<>>
    /\ seaLevel = 45
    /\ points = <<>>
    /\ activePoints = <<>>
    /\ grid = <<>>
    /\ startPoint = ZeroPoint
    /\ randomIndex = 0
    /\ i = 0
    /\ dist = 0
    /\ foundCandidate = FALSE
    /\ pc = "none"
    /\ seed = DefaultSeed
    /\ scale = 0
    /\ mutex = "free"
    /\ isGenerating = FALSE
    /\ img = BlankImage
    /\ uiPc = "idle"
    /\ runs = <<>>
    /\ prevRun = NoRun
    /\ MainAtRest
    /\ PerlinAtRest
    /\ WindowAtRest
    /\ CellAtRest

NextField ==
    \/ StoreHeight
    \/ NewNoiseMap

SpecField == InitField /\ [][NextField]_vars

\* the neighbour block for one candidate and one stored point
InitWindow ==
    /\ WindowInit
    /\ SamplerAtRest
    /\ seed = DefaultSeed
    /\ scale = 0
    /\ mutex = "free"
    /\ isGenerating = FALSE
    /\ img = BlankImage
    /\ uiPc = "idle"
    /\ runs = <<>>
    /\ prevRun = NoRun
    /\ MainAtRest
    /\ PerlinAtRest
    /\ FieldAtRest
    /\ CellAtRest

NextWindow == NeighbourCheck

SpecWindow == InitWindow /\ [][NextWindow]_vars

\* the grid slot of one point
InitCell ==
    /\ CellInit
    /\ SamplerAtRest
    /\ seed = DefaultSeed
    /\ scale = 0
    /\ mutex = "free"
    /\ isGenerating = FALSE
    /\ img = BlankImage
    /\ uiPc = "idle"
    /\ runs = <<>>
    /\ prevRun = NoRun
    /\ MainAtRest
    /\ PerlinAtRest
    /\ FieldAtRest
    /\ WindowAtRest

NextCell ==
    \/ StartPointStore
    \/ CandidateStore
    \/ CandidateOutside

SpecCell == InitCell /\ [][NextCell]_vars

\* ------------------------------------------------------------ claims
Range(q) == {q[j] : j \in 1..Len(q)}

NoLand == \A c \in Coords : ~OnLand(c)

\* C1: Poisson separation. In every state of PoissonDisk, any two distinct
\* entries of the accepted list are at Euclidean distance >= minDistance.
C1_Separation ==
    \A a \in 1..Len(points), b \in 1..Len(points) :
        a /= b => DistSq(points[a], points[b]) >= minDistance * minDistance

\* C2: Poisson land constraint. Every accepted point has a height of at least
\* the land threshold seaLevel+0.05, hence of at least the seaLevel argument.
C2_LandConstraint ==
    \A j \in 1..Len(points) :
        /\ noiseMap[points[j]] >= seaLevel + LandMargin
        /\ noiseMap[points[j]] >= seaLevel

\* the sampler returned two or more points on a field that has water
C2_Witness ==
    /\ pc = "done"
    /\ Len(points) >= 2
    /\ \E c \in Coords : noiseMap[c] < seaLevel + LandMargin

\* C3: when no raster coordinate is land, the search for the first point gives
\* up after a bounded number of retries and ends in ExhaustedSearchError.
C3_SeekGivesUp == (pc = "seek" /\ NoLand) ~> (pc = "ExhaustedSearchError")

\* C4: the active loop terminates for every sequence of random choices: it
\* cannot accept points forever. Every acceptance adds a raster coordinate that
\* was not accepted before, so the accepted list is never longer than the set
\* of coordinates it holds (at most Width*Height acceptances).
C4_AcceptsBounded == Len(points) <= Cardinality(Range(points) \cap Coords)

\* C5: determinism. Two generation runs started with the same seed and the
\* same configuration produce the same output.
C5_Determinism ==
    \A r \in 1..Len(runs) :
        ( /\ runs[r].pc \in {"swap", "reset"}
          /\ prevRun /= NoRun
          /\ runs[r].startSeed = prevRun.startSeed
          /\ runs[r].startScale = prevRun.startScale )
            => Render(runs[r]) = Render(prevRun)

\* C6: candidate annulus. Every candidate is generated at a radius r with
\* minDistance <= r < 2*minDistance (dist holds the lower end of the half of
\* the range the radius was drawn in).
C6_CandidateAnnulus ==
    dist /= 0 =>
        /\ dist >= minDistance
        /\ dist < 2 * minDistance

\* C7: single-flight generation. At most one goroutine is executing
\* updateImage at any time.
C7_SingleFlight == Cardinality({r \in 1..Len(runs) : Executing(r)}) <= 1

\* triggerUpdate holds the mutex and finds a run executing
C7_Witness ==
    /\ uiPc = "locked"
    /\ isGenerating
    /\ \E r \in 1..Len(runs) : Executing(r)

\* C8: a request made while a run is in flight is not lost. Once the UI is idle
\* and no run is in flight, the shared image was generated from the current
\* value of the parameter whose change calls triggerUpdate.
C8_NoLostRequest ==
    (uiPc = "idle" /\ runs = <<>> /\ ~isGenerating) =>
        /\ Len(img.scales) = NumPixels
        /\ \A j \in 1..Len(img.scales) : img.scales[j] = scale

\* C9: one immutable configuration per run. Everything a run has read is the
\* value that was in force when the run started: the noise table and the POI
\* random source come from the same seed, every pixel from the same scale.
C9_ImmutableConfig ==
    \A r \in 1..Len(runs) :
        /\ runs[r].perlinSeed = runs[r].startSeed
        /\ runs[r].poiSeed \in {-1, runs[r].startSeed}
        /\ \A j \in 1..Len(runs[r].scales) : runs[r].scales[j] = runs[r].startScale

\* C10: structurally invalid parameters are rejected with ConfigurationError
\* before any computation, with no partial output. Here: a land threshold
\* seaLevel+0.05 above 1.00.
C10_InvalidRejected ==
    (seaLevel + LandMargin > 100) =>
        /\ pc \in {"entry", "ConfigurationError"}
        /\ points = <<>>

\* C11: range invariant. Every value stored in the height field lies in
\* [0,1], whatever the blended noise and the falloff are before clamping.
C11_HeightRange ==
    /\ \A c \in DOMAIN noiseMap : noiseMap[c] >= 0 /\ noiseMap[c] <= 100
    /\ noiseValue >= 0
    /\ noiseValue <= 100

\* a pixel whose value before clamping is negative was stored as 0
C11_Witness ==
    /\ pixel >= 1
    /\ combined - falloffVal < 0
    /\ noiseMap[PixelAt(pixel - 1)] = 0

\* C12: the table built by NewPerlin has 512 entries, its first 256 entries
\* hold each value of 0..255 exactly once (256 entries whose set of values is
\* 0..255), entry 256+i equals entry i, and two constructions with the same
\* seed give identical tables.
C12_PermutationTable ==
    noisePc \in {"ready", "fbm", "returned"} =>
        /\ DOMAIN table = 0..(2 * TableSize - 1)
        /\ {table[q] : q \in 0..(TableSize - 1)} = 0..(TableSize - 1)
        /\ \A q \in 0..(TableSize - 1) : table[TableSize + q] = table[q]
        /\ (prevSeed = tableSeed) => (table = prevTable)

\* a second instance was built from the seed of the first
C12_Witness ==
    /\ noisePc = "ready"
    /\ prevSeed = tableSeed
    /\ DOMAIN prevTable = 0..(2 * TableSize - 1)
    /\ table[TableSize] = table[0]

\* a run's output is the blank start image or a completely generated one
Complete(image) ==
    \/ image = BlankImage
    \/ /\ image.perlinSeed /= -1
       /\ Len(image.scales) = NumPixels
       /\ image.poiSeed /= -1

\* C13: fresh outputs per run. The shared image changes only by the swap of a
\* run that has finished its pixel loop and its POI pass, with the mutex taken;
\* no other step of a run touches it; the shared image and the image Save PNG
\* captured are never partially generated.
C13_FreshOutputs ==
    [][ /\ Complete(img')
        /\ (toSave' /= NoImage => Complete(toSave'))
        /\ (img' /= img =>
                /\ mutex = "free"
                /\ \E r \in 1..Len(runs) :
                    /\ runs[r].pc = "swap"
                    /\ img' = Render(runs[r])) ]_vars

\* Save PNG holds a generated image while the next run is inside its pixel loop
C13_Witness ==
    /\ uiPc = "saving"
    /\ toSave /= NoImage
    /\ toSave /= BlankImage
    /\ \E r \in 1..Len(runs) : runs[r].pc = "pixels" /\ Len(runs[r].scales) >= 1

\* C14: exhaustion step. The active list shrinks only after the 30 candidates
\* of one pick were all rejected; the step removes exactly the picked entry and
\* leaves the accepted list unchanged. The accepted list is append-only and
\* every active point is a member of the accepted list.
C14_Exhaustion ==
    [][ /\ (Len(activePoints') < Len(activePoints)) =>
                /\ i = MaxAttempts
                /\ ~foundCandidate
                /\ randomIndex \in 1..Len(activePoints)
                /\ activePoints' = SubSeq(activePoints, 1, randomIndex - 1)
                                    \o SubSeq(activePoints, randomIndex + 1, Len(activePoints))
                /\ points' = points
        /\ Len(points') >= Len(points)
        /\ SubSeq(points', 1, Len(points)) = points
        /\ Range(activePoints') \subseteq Range(points') ]_vars

\* an active point was exhausted and removed while another one is still active
C14_Witness ==
    /\ pc = "loop"
    /\ Len(points) >= 2
    /\ Len(activePoints) >= 1
    /\ Len(activePoints) < Len(points)

\* C15: 5x5 window sufficiency. For every in-bounds candidate and every stored
\* point closer than minDistance, the cell of the stored point lies in the 5x5
\* block around the candidate's cell, so the neighbour check examines it.
C15_WindowSufficient ==
    ( /\ examined /= "unchecked"
      /\ DistSq(newPoint, neighbour) < winDistance * winDistance )
        => examined = "yes"

\* a stored point closer than minDistance lies two cells away from the candidate
C15_Witness ==
    /\ examined = "yes"
    /\ DistSq(newPoint, neighbour) < winDistance * winDistance
    /\ Abs(WinCell(newPoint, winDistance)[1] - WinCell(neighbour, winDistance)[1]) = 2

\* C16: spatial grid invariant. No two accepted points map to the same grid
\* cell (a stored point is never overwritten), and the point stored in a cell
\* lies within that cell.
C16_OnePointPerCell ==
    /\ \A a \in 1..Len(points), b \in 1..Len(points) :
            a /= b => GridCell(points[a]) /= GridCell(points[b])
    /\ \A cell \in DOMAIN grid : Occupied(cell) => GridCell(grid[cell]) = cell

\* C17: noise table lookups stay in range. The lattice indices xi, yi are in
\* 0..255 and every index used by Noise2DRaw is in 0..511: no lookup panics.
C17_LookupsInRange ==
    /\ noisePc /= "panic"
    /\ lastNoise.xi \in 0..(TableSize - 1)
    /\ lastNoise.yi \in 0..(TableSize - 1)
    /\ \A n \in 1..Len(lastNoise.lookups) :
            lastNoise.lookups[n] \in 0..(2 * TableSize - 1)

\* a negative coordinate gave xi = 255, so p.p[xi+1] read the duplicated half
C17_Witness ==
    /\ lastNoise /= NoNoise
    /\ fbmX < 0
    /\ lastNoise.xi = TableSize - 1
    /\ \E n \in 1..Len(lastNoise.lookups) : lastNoise.lookups[n] >= TableSize

RECURSIVE Pow(_, _)
Pow(b, e) == IF e = 0 THEN 1 ELSE b * Pow(b, e - 1)

RECURSIVE SumTo(_, _)
SumTo(f, n) == IF n = 0 THEN 0 ELSE f[n - 1] + SumTo(f, n - 1)

\* the amplitude and the frequency of octave k of the call in progress
AmpOf(k) == (AmpUnit * Pow(persistence, k)) \div Pow(2, k)
FreqOf(k) == baseFreq * Pow(lacunarity, k)

\* the sum of the amplitudes used and the accumulated sum
SumAmp == SumTo([k \in 0..(octaves - 1) |-> AmpOf(k)], octaves)
SumTotal ==
    SumTo([k \in 0..(octaves - 1) |-> Noise2DRaw(fbmX, fbmY, FreqOf(k)).value * AmpOf(k)],
          octaves)

\* C18 as stated: FBM2DRaw never divides by a zero cumulative amplitude; the
\* cumulative amplitude is zero only when no octave was accumulated, and then
\* the result is 0; for octaves >= 1 the cumulative amplitude is >= 1 and the
\* result is the accumulated sum divided by the sum of the amplitudes used.
C18_AsStated ==
    noisePc = "returned" =>
        /\ fbmResult.den /= 0
        /\ (maxAmp = 0 => (fbmResult = Zero /\ octaves = 0))
        /\ (octaves >= 1 =>
                /\ maxAmp >= AmpUnit
                /\ fbmResult = [num |-> SumTotal, den |-> SumAmp])

\* C18: FBM degeneracy guard. FBM2DRaw never divides by a zero cumulative
\* amplitude: when it is zero the result is 0, otherwise the result is the
\* accumulated sum divided by the sum of the amplitudes used; for octaves >= 1
\* and a persistence >= 0 the cumulative amplitude is >= 1.
C18_DegeneracyGuard ==
    noisePc = "returned" =>
        /\ maxAmp = SumAmp
        /\ fbmResult.den /= 0
        /\ (maxAmp = 0 => fbmResult = Zero)
        /\ (maxAmp /= 0 => fbmResult = [num |-> SumTotal, den |-> SumAmp])
        /\ ((octaves >= 1 /\ persistence >= 0) => maxAmp >= AmpUnit)

\* the amplitudes of two octaves cancelled (persistence -1) and the call
\* returned 0 through the guard
C18_Witness ==
    /\ noisePc = "returned"
    /\ octaves >= 1
    /\ maxAmp = 0
    /\ fbmResult = Zero

\* C19: the grid is a complete index of the accepted list. Every accepted
\* point, (0,0) included, is stored in the cell that contains it and that cell
\* is recognised as occupied by the neighbour check.
C19_GridIndexesAccepted ==
    \A j \in 1..Len(points) :
        /\ grid[GridCell(points[j])] = points[j]
        /\ Occupied(GridCell(points[j]))

\* C20: every generation run that starts eventually finishes and resets
\* isGenerating, for every parameter value the controls can set.
C20_RunFinishes == isGenerating ~> ~isGenerating

\* C21: grid accesses are in range. For every raster, every minDistance >= 1
\* and every point of the raster, the cell indices satisfy 0 <= gridX < gridWidth
\* and 0 <= gridY < gridHeight: the write of the start point and the write of
\* an accepted candidate never panic, and a point that was stored lies inside
\* the raster.
C21_GridAccessInRange ==
    /\ cellPc /= "panic"
    /\ cellPc \in {"start stored", "candidate stored"} =>
            /\ cellPoint.X >= 0 /\ cellPoint.X < rasterWidth
            /\ cellPoint.Y >= 0 /\ cellPoint.Y < rasterHeight
            /\ gridX >= 0 /\ gridX < GridDim(rasterWidth, cellDistance)
            /\ gridY >= 0 /\ gridY < GridDim(rasterHeight, cellDistance)

\* a candidate in the last column of the raster was stored in the last column
\* of a grid whose cells are wider than one pixel
C21_Witness ==
    /\ cellPc = "candidate stored"
    /\ cellDistance >= 2
    /\ cellPoint.X = rasterWidth - 1
    /\ gridX >= 1
    /\ gridX = GridDim(rasterWidth, cellDistance) - 1

====
